---- MODULE Spec2Model ----
(***************************************************************************)
(* Model of package fault (src/fault.go): HTTP fault-injection handlers.   *)
(*                                                                         *)
(* A handler chain is built once (chain) and serves concurrently handled   *)
(* requests, one goroutine per request.  Every request owns a call stack   *)
(* of handler frames and an event log of what each layer did for it.       *)
(*                                                                         *)
(* Float64 values in [0,1) and ratios are scaled by Scale: the draw v      *)
(* stands for v/Scale, the ratio x for x/Scale.                            *)
(*                                                                         *)
(* Identifiers the source leaves unbound are read as their nearest         *)
(* binding: mu and r in decide are the package lock and random source,     *)
(* r.Float64() and f.RandomRatio in Handler.Handler are h.r and            *)
(* h.RandomRatio, and R in Handler.Handler is the request r.  A Delay has  *)
(* no ratio and no Handler(next) of its own: it is served only as the      *)
(* fault bound by New(f, ratio).Handler(next), so next in Delay.Handle is  *)
(* the next of the binding Handler.  The source gives f.RandomRatio in     *)
(* Delay.Handle no value: whatever a build makes of it is one ratio for    *)
(* the whole run, chosen freely at the start (delayRandomRatio).           *)
(***************************************************************************)
EXTENDS Integers, Sequences, FiniteSets, TLC

\* ---------------------------------------------------------------- bounds
NumRequests == 2
MaxDuration == 2
Scale == 4

Reqs == 1..NumRequests
\* values r.Float64() can return: 0 and the largest value below 1
Draws == {0, Scale - 1}
\* ratios: below 0, 0, inside (0,1), 1, above 1
Ratios == {-1, 0, 1, Scale, Scale + 1}
\* the ratios inside [0,1]
CoreRatios == {0, 1, Scale}
Durations == {0, MaxDuration}
\* status code and status text of the Error values
Statuses == {<<503, "">>, <<500, "boom">>}

\* ------------------------------------------------------------- constants
Placeholder == "fault: pseudo status text is injected"

Variants == {"Delay", "Error", "DelayWithError", "Abort", "DelayWithAbort"}

VARIABLES
  chain,   \* the handler chain, outermost first; the innermost downstream
           \* handler sits behind the last entry
  stack,   \* stack[q]: call stack of the goroutine serving request q
  status,  \* status[q]: "idle", "running", "done" or "aborted"
  log,     \* log[q]: what happened while serving q, in order
  mu,      \* the package mutex of decide: 0 when unlocked, else the holder
  delayRandomRatio
           \* the value of f.RandomRatio in Delay.Handle, which the source
           \* leaves undetermined

vars == <<chain, stack, status, log, mu, delayRandomRatio>>

\* ------------------------------------------------------------ the values
\* One fault value with a ratio of its own (or one generic Handler); unused
\* fields hold Go's zero values.
Layer(kind, ratio, dur, aft, code, text) ==
  [kind |-> kind, RandomRatio |-> ratio, Duration |-> dur, Afterward |-> aft,
   StatusCode |-> code, StatusText |-> text]

\* a Delay value: Duration and Afterward, no ratio
Delay(dur, aft) == [kind |-> "Delay", Duration |-> dur, Afterward |-> aft]

ErrorValues ==
  {Layer("Error", x, 0, FALSE, st[1], st[2]) : x \in CoreRatios, st \in Statuses}
DelayWithErrorValues ==
  {Layer("DelayWithError", x, MaxDuration, FALSE, st[1], st[2]) :
     x \in CoreRatios, st \in Statuses}
AbortValues == {Layer("Abort", x, 0, FALSE, 0, "") : x \in Ratios}
DelayWithAbortValues ==
  {Layer("DelayWithAbort", x, d, FALSE, 0, "") : x \in CoreRatios, d \in Durations}
\* New(f, ratio).Handler(next): the generic Handler with the Delay it binds
Bind(ratio, f) == <<Layer("Handler", ratio, 0, FALSE, 0, ""), f>>

\* the ratios of the Handlers that bind a Delay with a Duration
StackRatios == {1, Scale}
\* the values f.RandomRatio in Delay.Handle may have
DelayRatios == CoreRatios
\* the layers a bound Delay wraps
StackError == Layer("Error", Scale, 0, FALSE, 503, "")
StackAbort == Layer("Abort", Scale, 0, FALSE, 0, "")

\* the chains served: every variant with a Handler(next) of its own alone;
\* a bound Delay around the innermost handler, with zero values and with a
\* Duration; a Delay bound with ratio 1 around an Error; a bound Delay
\* with Afterward around an Abort
Chains ==
  {<<f>> : f \in ErrorValues \cup DelayWithErrorValues
                 \cup AbortValues \cup DelayWithAbortValues}
  \cup {Bind(0, Delay(0, FALSE))}
  \cup {Bind(x, Delay(MaxDuration, a)) : x \in StackRatios, a \in BOOLEAN}
  \cup {Bind(Scale, Delay(MaxDuration, FALSE)) \o <<StackError>>}
  \cup {Bind(1, Delay(MaxDuration, TRUE)) \o <<StackAbort>>}

\* ------------------------------------------------------------ the events
Ev(op, by, n, s, w, r) == [op |-> op, by |-> by, n |-> n, s |-> s, w |-> w, r |-> r]

\* index of the innermost downstream handler
Downstream == Len(chain) + 1

\* the handler a layer calls as next: the generic Handler at i binds the
\* fault at i+1 and has the handler behind it as next
NextOf(i) == IF chain[i].kind = "Handler" THEN i + 2 ELSE i + 1

\* the ratio layer i passes to decide: its own RandomRatio; for a Delay,
\* which has none, the undetermined value of the operand
RatioOf(i) ==
  IF chain[i].kind = "Delay" THEN delayRandomRatio ELSE chain[i].RandomRatio

\* where a handler starts
InitPc(i) ==
  IF i = Downstream THEN "serve"
  ELSE IF chain[i].kind = "Handler" THEN "h_start" ELSE "decide"

Frame(i, w, r) == [idx |-> i, pc |-> InitPc(i), ok |-> FALSE, t |-> 0, w |-> w, r |-> r]

Top(q) == stack[q][Len(stack[q])]
Running(q) == status[q] = "running" /\ Len(stack[q]) > 0
At(q, pc) == Running(q) /\ Top(q).pc = pc
AtLayer(q, pc) == At(q, pc) /\ Top(q).idx # Downstream
SetTop(q, f) == [stack EXCEPT ![q] = [@ EXCEPT ![Len(@)] = f]]
Append1(q, e) == [log EXCEPT ![q] = Append(@, e)]


\* ------------------------------------------------------------ decide
\* mutant: the comparison admits the drawn value itself
decideResultLE(v, ratio) == v <= ratio

\* decide, line 18: the comparison of the drawn value with the ratio
decideResult(v, ratio) == v < ratio

\* ------------------------------------------- the variants' control flow
\* Each operator gives the next position of a variant's handler: at
\* "decided" decide has returned ok, at "slept" time.Sleep has returned.

\* mutant: the decision is read the wrong way round
DelayHandleInverted(f, at, ok) ==
  IF at = "decided"
  THEN IF ok THEN "next_pass"
       ELSE IF f.Afterward THEN "next_first" ELSE "sleep"
  ELSE IF f.Afterward THEN "return" ELSE "next_last"

\* mutant: Afterward is ignored, the sleep always follows the call
DelayHandleAlwaysAfter(f, at, ok) ==
  IF at = "decided"
  THEN IF ~ok THEN "next_pass" ELSE "next_first"
  ELSE "return"

\* mutant: Afterward is ignored, the sleep always precedes the call
DelayHandleAlwaysBefore(f, at, ok) ==
  IF at = "decided"
  THEN IF ~ok THEN "next_pass" ELSE "sleep"
  ELSE "next_last"

\* mutant: with Afterward the handler proxies again after the sleep
DelayHandleCallsTwice(f, at, ok) ==
  IF at = "decided"
  THEN IF ~ok THEN "next_pass"
       ELSE IF f.Afterward THEN "next_first" ELSE "sleep"
  ELSE "next_last"

\* Delay.Handle
DelayHandle(f, at, ok) ==
  IF at = "decided"
  THEN IF ~ok THEN "next_pass"
       ELSE IF f.Afterward THEN "next_first" ELSE "sleep"
  ELSE IF f.Afterward THEN "return" ELSE "next_last"

\* Error.Handler
ErrorHandler(f, at, ok) ==
  IF ~ok THEN "next_pass" ELSE "writeheader"

\* mutant: the sleep is left out
DelayWithErrorHandlerNoSleep(f, at, ok) ==
  IF ~ok THEN "next_pass" ELSE "writeheader"

\* DelayWithError.Handler
DelayWithErrorHandler(f, at, ok) ==
  IF at = "decided"
  THEN IF ~ok THEN "next_pass" ELSE "sleep"
  ELSE "writeheader"

\* mutant: the triggered Abort answers like Error instead of aborting
AbortHandlerWrites(f, at, ok) ==
  IF ~ok THEN "next_pass" ELSE "writeheader"

\* Abort.Handler
AbortHandler(f, at, ok) ==
  IF ~ok THEN "next_pass" ELSE "panic"

\* mutant: the sleep is left out
DelayWithAbortHandlerNoSleep(f, at, ok) ==
  IF ~ok THEN "next_pass" ELSE "panic"

\* DelayWithAbort.Handler
DelayWithAbortHandler(f, at, ok) ==
  IF at = "decided"
  THEN IF ~ok THEN "next_pass" ELSE "sleep"
  ELSE "panic"

Step(f, at, ok) ==
  CASE f.kind = "Delay" -> DelayHandle(f, at, ok)
    [] f.kind = "Error" -> ErrorHandler(f, at, ok)
    [] f.kind = "DelayWithError" -> DelayWithErrorHandler(f, at, ok)
    [] f.kind = "Abort" -> AbortHandler(f, at, ok)
    [] f.kind = "DelayWithAbort" -> DelayWithAbortHandler(f, at, ok)

\* mutant: no placeholder for an empty status text
ErrorStatusTextRaw(f) == f.StatusText

\* the body Error.Handler writes
ErrorStatusText(f) ==
  IF f.StatusText = "" THEN Placeholder ELSE f.StatusText

\* the body DelayWithError.Handler writes
DelayWithErrorStatusText(f) ==
  IF f.StatusText = "" THEN Placeholder ELSE f.StatusText

StatusTextOf(f) ==
  IF f.kind = "Error" THEN ErrorStatusText(f) ELSE DelayWithErrorStatusText(f)

\* Handler.Handler: the branch taken for the drawn value v
HandlerHandler(h, v) ==
  IF v < h.RandomRatio THEN "h_next" ELSE "h_fault"

\* ---------------------------------------------------------------- Init
\* whether the chain holds a Delay
HasDelay(c) == \E i \in 1..Len(c) : c[i].kind = "Delay"

Init ==
  /\ chain \in Chains
  /\ delayRandomRatio \in IF HasDelay(chain) THEN DelayRatios ELSE {0}
  /\ stack = [q \in Reqs |-> <<>>]
  /\ status = [q \in Reqs |-> "idle"]
  /\ log = [q \in Reqs |-> <<>>]
  /\ mu = 0

\* ------------------------------------------------------------- actions
\* the server starts the outermost handler for request q with q's sink
Accept(q) ==
  /\ status[q] = "idle"
  /\ status' = [status EXCEPT ![q] = "running"]
  /\ stack' = [stack EXCEPT ![q] = <<Frame(1, q, q)>>]
  /\ log' = Append1(q, Ev("enter", 1, 0, "", q, q))
  /\ UNCHANGED <<chain, delayRandomRatio, mu>>

\* decide: mu.Lock() succeeds and r.Float64() is entered
Lock(q) ==
  /\ AtLayer(q, "decide")
  /\ mu = 0
  /\ mu' = q
  /\ stack' = SetTop(q, [Top(q) EXCEPT !.pc = "drawing"])
  /\ UNCHANGED <<chain, delayRandomRatio, status, log>>

\* decide: r.Float64() returns v, which is compared with the ratio
Draw(q) ==
  /\ AtLayer(q, "drawing")
  /\ \E v \in Draws :
       /\ stack' = SetTop(q, [Top(q) EXCEPT
            !.pc = "drawn",
            !.ok = decideResult(v, RatioOf(Top(q).idx))])
       /\ log' = Append1(q, Ev("draw", Top(q).idx, v, "", 0, 0))
  /\ UNCHANGED <<chain, delayRandomRatio, status, mu>>

\* mutant: decide returns without releasing the lock
UnlockKeepsLock(q) ==
  /\ AtLayer(q, "drawn")
  /\ mu' = mu
  /\ stack' = SetTop(q, [Top(q) EXCEPT
       !.pc = Step(chain[Top(q).idx], "decided", Top(q).ok)])
  /\ log' = Append1(q, Ev("decide", Top(q).idx, IF Top(q).ok THEN 1 ELSE 0, "", 0, 0))
  /\ UNCHANGED <<chain, delayRandomRatio, status>>

\* mutant: the lock is released only on the not-triggered path
UnlockWhenNotTriggered(q) ==
  /\ AtLayer(q, "drawn")
  /\ mu' = IF Top(q).ok THEN mu ELSE 0
  /\ stack' = SetTop(q, [Top(q) EXCEPT
       !.pc = Step(chain[Top(q).idx], "decided", Top(q).ok)])
  /\ log' = Append1(q, Ev("decide", Top(q).idx, IF Top(q).ok THEN 1 ELSE 0, "", 0, 0))
  /\ UNCHANGED <<chain, delayRandomRatio, status>>

\* decide: the deferred mu.Unlock() and the return to the variant
Unlock(q) ==
  /\ AtLayer(q, "drawn")
  /\ mu' = 0
  /\ stack' = SetTop(q, [Top(q) EXCEPT
       !.pc = Step(chain[Top(q).idx], "decided", Top(q).ok)])
  /\ log' = Append1(q, Ev("decide", Top(q).idx, IF Top(q).ok THEN 1 ELSE 0, "", 0, 0))
  /\ UNCHANGED <<chain, delayRandomRatio, status>>

\* next.ServeHTTP(w, r) from the frame on top, which continues at cont
\* once the callee has returned
Call(q, callee, cont) ==
  LET f == Top(q) IN
  /\ stack' = [stack EXCEPT ![q] =
       Append([@ EXCEPT ![Len(@)] = [f EXCEPT !.pc = cont]], Frame(callee, f.w, f.r))]
  /\ log' = [log EXCEPT ![q] =
       @ \o <<Ev("call", f.idx, callee, "", f.w, f.r),
              Ev("enter", callee, 0, "", f.w, f.r)>>]
  /\ UNCHANGED <<chain, delayRandomRatio, status, mu>>

\* not triggered: next.ServeHTTP(w, r); return
PassThrough(q) ==
  /\ AtLayer(q, "next_pass")
  /\ Call(q, NextOf(Top(q).idx), "return")

\* Delay, Afterward: next.ServeHTTP(w, r), then the sleep
CallNextFirst(q) ==
  /\ AtLayer(q, "next_first")
  /\ Call(q, NextOf(Top(q).idx), "sleep")

\* Delay, not Afterward: next.ServeHTTP(w, r) after the sleep
CallNextLast(q) ==
  /\ AtLayer(q, "next_last")
  /\ Call(q, NextOf(Top(q).idx), "return")

\* time.Sleep(f.Duration) is entered
SleepStart(q) ==
  /\ AtLayer(q, "sleep")
  /\ stack' = SetTop(q, [Top(q) EXCEPT !.pc = "sleeping", !.t = 0])
  /\ log' = Append1(q, Ev("sleepStart", Top(q).idx, 0, "", 0, 0))
  /\ UNCHANGED <<chain, delayRandomRatio, status, mu>>

\* one unit of time passes for the sleeping goroutine
Tick(q) ==
  /\ AtLayer(q, "sleeping")
  /\ Top(q).t < chain[Top(q).idx].Duration
  /\ stack' = SetTop(q, [Top(q) EXCEPT !.t = @ + 1])
  /\ UNCHANGED <<chain, delayRandomRatio, status, log, mu>>

\* time.Sleep returns once at least f.Duration has passed
SleepEnd(q) ==
  /\ AtLayer(q, "sleeping")
  /\ Top(q).t >= chain[Top(q).idx].Duration
  /\ stack' = SetTop(q, [Top(q) EXCEPT
       !.pc = Step(chain[Top(q).idx], "slept", TRUE)])
  /\ log' = Append1(q, Ev("sleepEnd", Top(q).idx, Top(q).t, "", 0, 0))
  /\ UNCHANGED <<chain, delayRandomRatio, status, mu>>

\* w.WriteHeader(f.StatusCode)
WriteHeader(q) ==
  /\ AtLayer(q, "writeheader")
  /\ stack' = SetTop(q, [Top(q) EXCEPT !.pc = "write"])
  /\ log' = Append1(q, Ev("WriteHeader", Top(q).idx,
                          chain[Top(q).idx].StatusCode, "", Top(q).w, 0))
  /\ UNCHANGED <<chain, delayRandomRatio, status, mu>>

\* mutant: the substituted status text is stored back into the fault value
WriteStoresText(q) ==
  /\ AtLayer(q, "write")
  /\ stack' = SetTop(q, [Top(q) EXCEPT !.pc = "return"])
  /\ log' = Append1(q, Ev("Write", Top(q).idx, 0,
                          StatusTextOf(chain[Top(q).idx]), Top(q).w, 0))
  /\ chain' = [chain EXCEPT ![Top(q).idx].StatusText = StatusTextOf(chain[Top(q).idx])]
  /\ UNCHANGED <<status, mu, delayRandomRatio>>

\* w.Write([]byte(statusText))
Write(q) ==
  /\ AtLayer(q, "write")
  /\ stack' = SetTop(q, [Top(q) EXCEPT !.pc = "return"])
  /\ log' = Append1(q, Ev("Write", Top(q).idx, 0,
                          StatusTextOf(chain[Top(q).idx]), Top(q).w, 0))
  /\ UNCHANGED <<chain, delayRandomRatio, status, mu>>

\* panic(http.ErrAbortHandler): the goroutine's stack unwinds to the
\* server, which ends this request's handling without a response
Panic(q) ==
  /\ AtLayer(q, "panic")
  /\ stack' = [stack EXCEPT ![q] = <<>>]
  /\ status' = [status EXCEPT ![q] = "aborted"]
  /\ log' = Append1(q, Ev("panic", Top(q).idx, 0, "", 0, 0))
  /\ UNCHANGED <<chain, delayRandomRatio, mu>>

\* a handler returns to its caller, the outermost one to the server
Return(q) ==
  /\ At(q, "return")
  /\ stack' = [stack EXCEPT ![q] = SubSeq(@, 1, Len(@) - 1)]
  /\ status' = [status EXCEPT ![q] = IF Len(stack[q]) = 1 THEN "done" ELSE @]
  /\ log' = Append1(q, Ev("return", Top(q).idx, 0, "", 0, 0))
  /\ UNCHANGED <<chain, delayRandomRatio, mu>>

\* Handler.Handler: r.Float64() is entered, no lock is taken
HandlerDrawBegin(q) ==
  /\ AtLayer(q, "h_start")
  /\ stack' = SetTop(q, [Top(q) EXCEPT !.pc = "h_drawing"])
  /\ UNCHANGED <<chain, delayRandomRatio, status, log, mu>>

\* Handler.Handler: r.Float64() returns v and the branch is taken
HandlerDrawEnd(q) ==
  /\ AtLayer(q, "h_drawing")
  /\ \E v \in Draws :
       /\ stack' = SetTop(q, [Top(q) EXCEPT
            !.pc = HandlerHandler(chain[Top(q).idx], v)])
       /\ log' = Append1(q, Ev("draw", Top(q).idx, v, "", 0, 0))
  /\ UNCHANGED <<chain, delayRandomRatio, status, mu>>

\* Handler.Handler: next.ServeHTTP(w, r); return
HandlerCallNext(q) ==
  /\ AtLayer(q, "h_next")
  /\ Call(q, NextOf(Top(q).idx), "return")

\* Handler.Handler: h.f.Handle(w, R)
HandlerCallFault(q) ==
  /\ AtLayer(q, "h_fault")
  /\ Call(q, Top(q).idx + 1, "return")

\* the innermost downstream handler serves the request: it answers 200 "ok"
Serve(q) ==
  /\ At(q, "serve")
  /\ Top(q).idx = Downstream
  /\ stack' = SetTop(q, [Top(q) EXCEPT !.pc = "return"])
  /\ log' = [log EXCEPT ![q] =
       @ \o <<Ev("WriteHeader", Downstream, 200, "", Top(q).w, Top(q).r),
              Ev("Write", Downstream, 0, "ok", Top(q).w, Top(q).r)>>]
  /\ UNCHANGED <<chain, delayRandomRatio, status, mu>>

\* one step of the goroutine serving request q
Handling(q) ==
  \/ Accept(q)
  \/ Lock(q)
  \/ Draw(q)
  \/ Unlock(q)
  \/ PassThrough(q)
  \/ CallNextFirst(q)
  \/ CallNextLast(q)
  \/ SleepStart(q)
  \/ Tick(q)
  \/ SleepEnd(q)
  \/ WriteHeader(q)
  \/ Write(q)
  \/ Panic(q)
  \/ Return(q)
  \/ HandlerDrawBegin(q)
  \/ HandlerDrawEnd(q)
  \/ HandlerCallNext(q)
  \/ HandlerCallFault(q)
  \/ Serve(q)

Next == \E q \in Reqs : Handling(q)

Spec == Init /\ [][Next]_vars


\* ===================================================================
\* Properties
\* ===================================================================
\* the events layer i logged for request q, in order
Proj(q, i) == SelectSeq(log[q], LAMBDA e : e.by = i)

IsPrefix(s, t) == Len(s) <= Len(t) /\ SubSeq(t, 1, Len(s)) = s

\* the variant layers of the chain, and those of one kind
VariantLayers == {i \in 1..Len(chain) : chain[i].kind \in Variants}
LayersOf(kind) == {i \in 1..Len(chain) : chain[i].kind = kind}

\* layer i has decided for request q, with outcome b (1 triggered, 0 not)
Decided(q, i, b) ==
  \E k \in 1..Len(log[q]) :
    log[q][k].op = "decide" /\ log[q][k].by = i /\ log[q][k].n = b

\* layer i has returned for request q
Returned(q, i) ==
  \E k \in 1..Len(log[q]) : log[q][k].op = "return" /\ log[q][k].by = i

\* no handler behind layer i was reached for request q
NothingBehind(q, i) == \A k \in 1..Len(log[q]) : log[q][k].by <= i

\* nothing was written to the response sink of request q
NothingWritten(q) ==
  \A k \in 1..Len(log[q]) : log[q][k].op \notin {"WriteHeader", "Write"}

\* the head of every layer's trace: entered with (w, r), one draw
TraceHead(p) ==
  /\ p[1].op = "enter"
  /\ p[2].op = "draw" /\ p[2].n \in 0..(Scale - 1)

\* the body the claims expect for status text t
ExpectedBody(t) ==
  IF t = "" THEN "fault: pseudo status text is injected" ELSE t

\* C1: a variant that decides 'not triggered' calls its downstream handler
\* exactly once with the request and sink it received, then returns; it
\* sleeps, writes and aborts nothing itself.  With ratio <= 0 every
\* decision is 'not triggered'.
C1_NotTriggeredDelegates ==
  \A q \in Reqs : \A i \in VariantLayers :
    /\ Decided(q, i, 0) =>
         LET p == Proj(q, i) IN
         /\ TraceHead(p)
         /\ IsPrefix(p, <<p[1], p[2], Ev("decide", i, 0, "", 0, 0),
                          Ev("call", i, i + 1, "", p[1].w, p[1].r),
                          Ev("return", i, 0, "", 0, 0)>>)
         /\ p[1].w = q /\ p[1].r = q
         /\ status[q] # "aborted" \/ ~NothingBehind(q, i)
    /\ RatioOf(i) <= 0 => ~Decided(q, i, 1)

\* C1 witness: a variant with ratio <= 0 has passed a request through and
\* returned
C1_Witness ==
  \E q \in Reqs : \E i \in VariantLayers :
    /\ RatioOf(i) <= 0
    /\ Decided(q, i, 0)
    /\ Len(Proj(q, i)) = 5
    /\ status[q] = "done"

\* C2: every decision of decide follows exactly one draw v in [0,1) and is
\* 'triggered' exactly when v < ratio; so ratio <= 0 never triggers and
\* ratio >= 1 always triggers.
C2_DecideIsDrawBelowRatio ==
  \A q \in Reqs : \A k \in 1..Len(log[q]) :
    log[q][k].op = "decide" =>
      LET i == log[q][k].by
          x == RatioOf(i)
      IN
      /\ k > 1
      /\ log[q][k - 1].op = "draw" /\ log[q][k - 1].by = i
      /\ log[q][k - 1].n \in 0..(Scale - 1)
      /\ Len(SelectSeq(Proj(q, i), LAMBDA e : e.op = "draw")) = 1
      /\ (log[q][k].n = 1) <=> (log[q][k - 1].n < x)
      /\ log[q][k].n \in {0, 1}
      /\ x <= 0 => log[q][k].n = 0
      /\ x >= Scale => log[q][k].n = 1

\* C2 witness: all requests have been decided, by a ratio outside [0,1]
C2_Witness ==
  /\ \A q \in Reqs : Decided(q, 1, 0) \/ Decided(q, 1, 1)
  /\ chain[1].kind \in Variants
  /\ chain[1].RandomRatio \notin 0..Scale

\* C3: a triggered Error writes the configured status once, then the
\* configured text (or the placeholder when it is empty) as body, and
\* returns; nothing behind it is reached.
C3_ErrorShortCircuits ==
  \A q \in Reqs : \A i \in LayersOf("Error") :
    Decided(q, i, 1) =>
      LET p == Proj(q, i) IN
      /\ TraceHead(p)
      /\ IsPrefix(p, <<p[1], p[2], Ev("decide", i, 1, "", 0, 0),
                       Ev("WriteHeader", i, chain[i].StatusCode, "", p[1].w, 0),
                       Ev("Write", i, 0, ExpectedBody(chain[i].StatusText), p[1].w, 0),
                       Ev("return", i, 0, "", 0, 0)>>)
      /\ p[1].w = q
      /\ NothingBehind(q, i)

\* C3 witness: an Error with an empty status text has answered a request
C3_Witness ==
  \E q \in Reqs : \E i \in LayersOf("Error") :
    /\ chain[i].StatusText = ""
    /\ Decided(q, i, 1)
    /\ Returned(q, i)

\* C4 (state part): a triggered Abort reaches nothing behind it, the sink
\* stays empty, the handling ends aborted, and the lock is not left held
C4_AbortState ==
  \A q \in Reqs : \A i \in LayersOf("Abort") :
    Decided(q, i, 1) =>
      LET p == Proj(q, i) IN
      /\ TraceHead(p)
      /\ IsPrefix(p, <<p[1], p[2], Ev("decide", i, 1, "", 0, 0),
                       Ev("panic", i, 0, "", 0, 0)>>)
      /\ NothingBehind(q, i)
      /\ NothingWritten(q)
      /\ status[q] # "done"
      /\ Len(p) = 4 => status[q] = "aborted" /\ stack[q] = <<>> /\ mu # q

\* C4 (step part): the step that aborts one request changes nothing of any
\* other request, which also stays able to take the lock
C4_AbortStep ==
  \A q \in Reqs :
    (status[q] # "aborted" /\ status'[q] = "aborted") =>
      /\ mu' = mu
      /\ \A o \in Reqs \ {q} :
           stack'[o] = stack[o] /\ status'[o] = status[o] /\ log'[o] = log[o]

\* C4: when Abort is triggered the downstream handler is never invoked,
\* nothing is written, the request's handling ends aborted, and requests
\* handled concurrently are unaffected.
C4_AbortOnlyThisRequest == []C4_AbortState /\ [][C4_AbortStep]_vars

\* C4 witness: one request was aborted by Abort while another, handled
\* concurrently, completed normally after it
C4_Witness ==
  \E q \in Reqs : \E o \in Reqs \ {q} : \E i \in LayersOf("Abort") :
    /\ status[q] = "aborted" /\ Decided(q, i, 1)
    /\ status[o] = "done" /\ Decided(o, i, 0)

\* C5: a triggered Delay with Afterward = false sleeps the whole Duration,
\* then calls its downstream handler exactly once, then returns; it writes
\* nothing itself.
C5_DelayBefore ==
  \A q \in Reqs : \A i \in LayersOf("Delay") :
    (Decided(q, i, 1) /\ ~chain[i].Afterward) =>
      LET p == Proj(q, i) IN
      /\ TraceHead(p)
      /\ IsPrefix(p, <<p[1], p[2], Ev("decide", i, 1, "", 0, 0),
                       Ev("sleepStart", i, 0, "", 0, 0),
                       Ev("sleepEnd", i, chain[i].Duration, "", 0, 0),
                       Ev("call", i, i + 1, "", p[1].w, p[1].r),
                       Ev("return", i, 0, "", 0, 0)>>)
      /\ \A k \in 1..Len(log[q]) :
           log[q][k].by > i =>
             \E j \in 1..(k - 1) : log[q][j].op = "sleepEnd" /\ log[q][j].by = i

\* C5 witness: such a Delay with Duration > 0 has returned
C5_Witness ==
  \E q \in Reqs : \E i \in LayersOf("Delay") :
    /\ ~chain[i].Afterward /\ chain[i].Duration > 0
    /\ Decided(q, i, 1)
    /\ Returned(q, i)

\* position of the first event of layer i with operation op in log[q],
\* 0 when there is none
Pos(q, i, op) ==
  LET S == {k \in 1..Len(log[q]) : log[q][k].op = op /\ log[q][k].by = i}
  IN IF S = {} THEN 0 ELSE CHOOSE k \in S : \A j \in S : k <= j

\* C6: a triggered Delay with Afterward = true calls its downstream handler
\* exactly once before any sleep, starts the sleep only after that handler
\* has returned, sleeps the whole Duration and only then returns.
C6_DelayAfter ==
  \A q \in Reqs : \A i \in LayersOf("Delay") :
    (Decided(q, i, 1) /\ chain[i].Afterward) =>
      LET p == Proj(q, i) IN
      /\ TraceHead(p)
      /\ IsPrefix(p, <<p[1], p[2], Ev("decide", i, 1, "", 0, 0),
                       Ev("call", i, i + 1, "", p[1].w, p[1].r),
                       Ev("sleepStart", i, 0, "", 0, 0),
                       Ev("sleepEnd", i, chain[i].Duration, "", 0, 0),
                       Ev("return", i, 0, "", 0, 0)>>)
      /\ Pos(q, i, "sleepStart") > 0 =>
           /\ Pos(q, i + 1, "return") > 0
           /\ Pos(q, i + 1, "return") < Pos(q, i, "sleepStart")

\* C6 witness: such a Delay with Duration > 0 has returned
C6_Witness ==
  \E q \in Reqs : \E i \in LayersOf("Delay") :
    /\ chain[i].Afterward /\ chain[i].Duration > 0
    /\ Decided(q, i, 1)
    /\ Returned(q, i)

\* C7: a triggered DelayWithError sleeps the whole Duration before it
\* writes anything, then writes the configured status and the text (or the
\* placeholder) as Error does; nothing behind it is reached.
C7_DelayThenError ==
  \A q \in Reqs : \A i \in LayersOf("DelayWithError") :
    Decided(q, i, 1) =>
      LET p == Proj(q, i) IN
      /\ TraceHead(p)
      /\ IsPrefix(p, <<p[1], p[2], Ev("decide", i, 1, "", 0, 0),
                       Ev("sleepStart", i, 0, "", 0, 0),
                       Ev("sleepEnd", i, chain[i].Duration, "", 0, 0),
                       Ev("WriteHeader", i, chain[i].StatusCode, "", p[1].w, 0),
                       Ev("Write", i, 0, ExpectedBody(chain[i].StatusText), p[1].w, 0),
                       Ev("return", i, 0, "", 0, 0)>>)
      /\ p[1].w = q
      /\ NothingBehind(q, i)

\* C7 witness: a DelayWithError with Duration > 0 has answered a request
C7_Witness ==
  \E q \in Reqs : \E i \in LayersOf("DelayWithError") :
    /\ chain[i].Duration > 0
    /\ Decided(q, i, 1)
    /\ Returned(q, i)

\* C8: a triggered DelayWithAbort sleeps the whole Duration and then
\* aborts; nothing behind it is reached and nothing is written.
C8_DelayThenAbort ==
  \A q \in Reqs : \A i \in LayersOf("DelayWithAbort") :
    Decided(q, i, 1) =>
      LET p == Proj(q, i) IN
      /\ TraceHead(p)
      /\ IsPrefix(p, <<p[1], p[2], Ev("decide", i, 1, "", 0, 0),
                       Ev("sleepStart", i, 0, "", 0, 0),
                       Ev("sleepEnd", i, chain[i].Duration, "", 0, 0),
                       Ev("panic", i, 0, "", 0, 0)>>)
      /\ NothingBehind(q, i)
      /\ NothingWritten(q)
      /\ status[q] # "done"
      /\ Len(p) = 6 => status[q] = "aborted" /\ stack[q] = <<>>
      /\ status[q] = "aborted" => Len(p) = 6

\* C8 witness: a DelayWithAbort with Duration > 0 has aborted a request
C8_Witness ==
  \E q \in Reqs : \E i \in LayersOf("DelayWithAbort") :
    /\ chain[i].Duration > 0
    /\ Decided(q, i, 1)
    /\ status[q] = "aborted"


\* C9: the generic wrapper delegates to next, exactly once and without
\* running the bound fault, when the draw is not below its ratio, and runs
\* the bound fault when the draw is below its ratio; so with ratio <= 0 the
\* fault never runs and with ratio >= 1 it always runs.
C9_WrapperFollowsDecision ==
  \A q \in Reqs : \A i \in LayersOf("Handler") :
    LET p == Proj(q, i) IN
    Len(p) >= 2 =>
      LET triggered == p[2].n < chain[i].RandomRatio IN
      /\ TraceHead(p)
      /\ IsPrefix(p, <<p[1], p[2],
                       Ev("call", i, IF triggered THEN i + 1 ELSE i + 2, "",
                          p[1].w, p[1].r),
                       Ev("return", i, 0, "", 0, 0)>>)
      /\ ~triggered => Proj(q, i + 1) = <<>>
      /\ chain[i].RandomRatio <= 0 => Proj(q, i + 1) = <<>>
      /\ (chain[i].RandomRatio >= Scale /\ Len(p) >= 3) => Proj(q, i + 1) # <<>>

\* the chain is a Delay layer, bound with ratio 1, wrapping an Error layer
\* with ratio 1
DelayWrapsError ==
  /\ Len(chain) = 3
  /\ chain[1].kind = "Handler" /\ chain[1].RandomRatio = Scale
  /\ chain[2].kind = "Delay"
  /\ chain[3].kind = "Error" /\ chain[3].RandomRatio = Scale

\* the Delay layer has slept its whole Duration for request q before
\* position k of log[q]
DelayedBefore(q, k) ==
  \E j \in 1..(k - 1) :
    /\ log[q][j].op = "sleepEnd" /\ log[q][j].by = 2
    /\ log[q][j].n = chain[2].Duration

\* C10: whenever a Delay layer with ratio 1 wraps an Error layer with
\* ratio 1, the delay occurs first, then the Error layer writes its status
\* and body, and the innermost handler is never invoked.
C10_DelayAlwaysFirst ==
  DelayWrapsError =>
    \A q \in Reqs :
      /\ \A k \in 1..Len(log[q]) :
           LET e == log[q][k] IN
           /\ (e.by = 3 /\ e.op \in {"WriteHeader", "Write"}) => DelayedBefore(q, k)
           /\ e.op = "WriteHeader" => e.by = 3 /\ e.n = chain[3].StatusCode
           /\ e.op = "Write" => e.by = 3 /\ e.s = ExpectedBody(chain[3].StatusText)
      /\ NothingBehind(q, 3)


\* request q is inside a draw from the random source
InDraw(q) == Running(q) /\ Top(q).pc \in {"drawing", "h_drawing"}

\* C11: every draw, by a variant or by the generic wrapper, is made while
\* holding the lock, so at most one request is inside a draw at any time.
C11_DrawsAreSerialized ==
  /\ \A q \in Reqs : InDraw(q) => mu = q
  /\ Cardinality({q \in Reqs : InDraw(q)}) <= 1

\* the positions at which decide holds the lock
InDecide(q) == Running(q) /\ Top(q).pc \in {"drawing", "drawn"}

\* the positions of a suspension, a downstream call, a response write and
\* an abort
OutsideDecide(q) ==
  Running(q) /\ Top(q).pc \in
    {"next_pass", "next_first", "next_last", "sleep", "sleeping",
     "writeheader", "write", "panic", "serve", "return",
     "h_start", "h_drawing", "h_next", "h_fault"}

\* C12: the lock is held only while one value is drawn: no request that is
\* suspended, inside the downstream call, writing, aborting, aborted or
\* finished holds it.
C12_LockOnlyAroundDraw ==
  \A q \in Reqs :
    /\ mu = q => InDecide(q)
    /\ OutsideDecide(q) => mu # q
    /\ status[q] \in {"aborted", "done", "idle"} => mu # q
    /\ \A k \in 1..Len(stack[q]) :
         k < Len(stack[q]) => stack[q][k].pc \in {"return", "sleep"}

\* C12 witness: one request was aborted and another holds the lock for its
\* own draw
C12_Witness ==
  \E q \in Reqs : \E o \in Reqs \ {q} :
    /\ status[q] = "aborted"
    /\ mu = o /\ InDecide(o)


\* how often layer i logged operation op for request q
Count(q, i, op) ==
  Len(SelectSeq(log[q], LAMBDA e : e.op = op /\ e.by = i))

\* C13: for every request a layer calls its downstream handler at most
\* once, no handler is entered twice, and a layer that has written an
\* injected status or aborted calls nothing before or after it.
C13_DownstreamAtMostOnce ==
  \A q \in Reqs :
    /\ \A j \in 1..Downstream : Count(q, j, "enter") <= 1
    /\ \A i \in 1..Len(chain) :
         /\ Count(q, i, "call") <= 1
         /\ Count(q, i, "WriteHeader") <= 1 /\ Count(q, i, "panic") <= 1
         /\ (Count(q, i, "WriteHeader") > 0 \/ Count(q, i, "panic") > 0) =>
              Count(q, i, "call") = 0

\* C13 witness: a triggered Delay with Afterward = true has called its
\* downstream handler once, slept and returned
C13_Witness ==
  \E q \in Reqs : \E i \in LayersOf("Delay") :
    /\ chain[i].Afterward
    /\ Decided(q, i, 1) /\ Returned(q, i)
    /\ Count(q, i, "call") = 1 /\ Count(q, i + 1, "enter") = 1

\* the fault layers of the chain: a variant bound on its own, or the
\* generic Handler together with the fault it binds
FaultLayers ==
  {{i} : i \in {j \in VariantLayers : j = 1 \/ chain[j - 1].kind # "Handler"}}
  \cup {{i, i + 1} : i \in LayersOf("Handler")}

\* the positions in log[q] of the draws made by the fault layer U
DrawsOf(q, U) ==
  {k \in 1..Len(log[q]) : log[q][k].op = "draw" /\ log[q][k].by \in U}

\* C14: a fault layer, also one bound through the generic wrapper, draws
\* exactly one value per request, before it sleeps, calls downstream,
\* writes or aborts.
C14_OneDrawPerLayer ==
  \A q \in Reqs : \A U \in FaultLayers :
    /\ Cardinality(DrawsOf(q, U)) <= 1
    /\ \A k \in 1..Len(log[q]) :
         (/\ log[q][k].by \in U
          /\ log[q][k].op \in {"sleepStart", "call", "WriteHeader", "Write", "panic", "return"})
         => \E j \in DrawsOf(q, U) : j < k


\* request q is suspended in an injected delay
Suspended(q) == At(q, "sleeping")

\* C15: a suspended request does not hold the lock, and no other request
\* waits for it: every other unfinished request can take its next step, or
\* waits for the lock held by a third request that is drawing and can go
\* on.
C15_SuspensionBlocksOnlyItself ==
  \A q \in Reqs :
    Suspended(q) =>
      /\ mu # q
      /\ \A o \in Reqs \ {q} :
           status[o] \in {"idle", "running"} =>
             \/ ENABLED Handling(o)
             \/ /\ At(o, "decide")
                /\ mu \in Reqs \ {q, o}
                /\ InDecide(mu)
                /\ ENABLED Handling(mu)

\* C15 witness: while one request is suspended with time left to sleep,
\* another stands before decide and can take the lock
C15_Witness ==
  \E q \in Reqs : \E o \in Reqs \ {q} :
    /\ Suspended(q) /\ Top(q).t < chain[Top(q).idx].Duration
    /\ At(o, "decide") /\ mu = 0
    /\ ENABLED Lock(o)


\* the handling of request q has ended
Finished(q) == status[q] \in {"done", "aborted"}

\* the values drawn for request q, in order
DrawSeq(q) ==
  LET d == SelectSeq(log[q], LAMBDA e : e.op = "draw")
  IN [k \in 1..Len(d) |-> d[k].n]

\* what was done for request q, apart from which request and sink it was
Effects(q) ==
  [k \in 1..Len(log[q]) |-> <<log[q][k].op, log[q][k].by, log[q][k].n, log[q][k].s>>]

\* C16 (state part): two handled requests with the same draws had the same
\* outcome, whatever was handled before or beside them
C16_OutcomeByOwnDraw ==
  \A q \in Reqs : \A o \in Reqs \ {q} :
    (Finished(q) /\ Finished(o) /\ DrawSeq(q) = DrawSeq(o)) =>
      (Effects(q) = Effects(o) /\ status[q] = status[o])

\* C16: no step of handling a request changes the configuration of the
\* fault values, and the outcome of a request depends only on the
\* configuration and on the request's own draws.
C16_ConfigurationIsImmutable ==
  [][chain' = chain /\ delayRandomRatio' = delayRandomRatio]_vars
    /\ []C16_OutcomeByOwnDraw

\* C16 witness: two requests were handled with the same draws by a
\* triggered Error with an empty status text
C16_Witness ==
  \E q \in Reqs : \E o \in Reqs \ {q} : \E i \in LayersOf("Error") :
    /\ Finished(q) /\ Finished(o)
    /\ DrawSeq(q) = DrawSeq(o)
    /\ chain[i].StatusText = ""
    /\ Decided(q, i, 1) /\ Decided(o, i, 1)


\* Fair scheduling: the goroutine of every request keeps being scheduled
\* (and a goroutine waiting in mu.Lock() gets the lock once it stays free).
\* Termination is checked on one chain per code path: every variant with a
\* ratio inside (0,1), so that both decisions occur, and the full
\* Duration; the Delay bound by the generic Handler, with either Afterward.
FairChains ==
  {Bind(1, Delay(MaxDuration, a)) : a \in BOOLEAN}
  \cup {<<Layer("Error", 1, 0, FALSE, 503, "")>>,
        <<Layer("DelayWithError", 1, MaxDuration, FALSE, 503, "")>>,
        <<Layer("Abort", 1, 0, FALSE, 0, "")>>,
        <<Layer("DelayWithAbort", 1, MaxDuration, FALSE, 0, "")>>}

FairInit == Init /\ chain \in FairChains

FairSpec ==
  FairInit /\ [][Next]_vars /\ \A q \in Reqs : WF_vars(Handling(q))

\* C17: under fair scheduling every request eventually finishes, returned
\* or aborted; the lock is released again and the system never stops with
\* a request unfinished.
C17_EveryRequestFinishes ==
  /\ \A q \in Reqs : <>Finished(q)
  /\ <>[](mu = 0)
  /\ []((\A q \in Reqs : Finished(q)) \/ ENABLED Next)

\* C17 witness: all requests were handled concurrently by one Abort, one
\* was aborted and one returned, and the lock is free
C17_Witness ==
  /\ \A q \in Reqs : Finished(q)
  /\ \E q \in Reqs : status[q] = "aborted"
  /\ \E q \in Reqs : status[q] = "done"
  /\ mu = 0

====
